---- MODULE Spec2Model ----
(***************************************************************************)
(* A model of the zsync core job of AppImageUpdaterBridge                  *)
(* (src/src/ZsyncCoreJob_p.cc): the block hash table parsed from the       *)
(* checksum stream, the rsum hash and bit hash, the known ranges, the seed *)
(* scanner with its rolling checksums, the target writer and the report of *)
(* the required ranges.                                                    *)
(*                                                                         *)
(* Pointers into _pBlockHashes are block ids (NULL for the null pointer),  *)
(* C arrays indexed from 0 are sequences indexed from 1.                   *)
(***************************************************************************)
EXTENDS Integers, Sequences, FiniteSets, TLC

(***************************************************************************)
(* Bounds of the model.                                                    *)
(***************************************************************************)
\* the largest number of target blocks of a job with one-byte blocks
MaxBlocks == 5
\* the largest number of target blocks of a job with two-byte blocks
MaxPairBlocks == 2
\* the largest length of a seed file, in bytes
MaxSeedLen == 4
\* the largest byte value in the targets and seeds of jobs with one-byte blocks
MaxByte == 1
\* the largest byte value in the targets and seeds of jobs with two-byte blocks
MaxPairByte == 2
\* the largest number of blocks of a job with a broken stream or a failing heap
MaxBrokenBlocks == 2
\* the largest length of a seed that takes more than one buffer, in bytes
MaxLongSeedLen == 18
\* the largest number of blocks of a job with such a seed
MaxLongBlocks == 3
\* the number of blocks of the job whose known ranges are filled in any order
MaxRangeBlocks == 7
\* the largest block shift of a job whose window is slid over a buffer
MaxSlideShift == 5
\* the largest block size that is not a power of two of such a job
MaxOddBlockSize == 6
\* the largest number of slides of the window over such a buffer
MaxSlides == 3

(***************************************************************************)
(* Program constants.                                                      *)
(***************************************************************************)
BITHASHBITS == 3
CHECKSUM_SIZE == 16
\* the working buffer holds 16 blocks (plus the context)
BufferBlocks == 16
\* unsigned short arithmetic of struct rsum
RsumModulus == 65536
\* the largest unsigned char
UCHAR_MAX == 255
\* the null pointer
NULL == -1
\* a member that no code has assigned yet
Uninitialised == -2

\* The error codes of ZsyncCoreJobPrivate (0 is success).
HASH_TABLE_NOT_ALLOCATED == 1
INVALID_TARGET_FILE_CHECKSUM_BLOCKS == 2
CANNOT_OPEN_TARGET_FILE_CHECKSUM_BLOCKS == 3
QBUFFER_IO_READ_ERROR == 4
SOURCE_FILE_NOT_FOUND == 5
NO_PERMISSION_TO_READ_SOURCE_FILE == 6
CANNOT_OPEN_SOURCE_FILE == 7

(***************************************************************************)
(* Arithmetic helpers.                                                     *)
(***************************************************************************)
RECURSIVE Pow2(_)
Pow2(n) == IF n = 0 THEN 1 ELSE 2 * Pow2(n - 1)

\* bitwise exclusive or of two naturals (the C operator ^)
RECURSIVE Xor(_, _)
Xor(a, b) ==
    IF a = 0 THEN b
    ELSE IF b = 0 THEN a
    ELSE (((a % 2) + (b % 2)) % 2) + 2 * Xor(a \div 2, b \div 2)

\* (int) log2(n) for n >= 1
RECURSIVE Log2(_)
Log2(n) == IF n < 2 THEN 0 ELSE 1 + Log2(n \div 2)

Zeros(n) == [i \in 1..n |-> 0]

\* the bytes data[from], ..., data[from + n - 1] of a C buffer
Bytes(data, from, n) == SubSeq(data, from + 1, from + n)

(***************************************************************************)
(* Rolling checksum.                                                       *)
(***************************************************************************)
RECURSIVE RsumLoop(_, _, _, _)
RsumLoop(data, len, a, b) ==
    IF len = 0 THEN [a |-> a, b |-> b]
    ELSE LET c == Head(data)
         IN  RsumLoop(Tail(data), len - 1,
                      (a + c) % RsumModulus, (b + len * c) % RsumModulus)

calc_rsum_block(data) == RsumLoop(data, Len(data), 0, 0)

\* UPDATE_RSUM adding to b the a of before the update
UPDATE_RSUMOldA(r, oldc, newc, bshift) ==
    LET a == (r.a + newc - oldc) % RsumModulus
    IN  [a |-> a, b |-> (r.b + r.a - oldc * Pow2(bshift)) % RsumModulus]

UPDATE_RSUM(r, oldc, newc, bshift) ==
    LET a == (r.a + newc - oldc) % RsumModulus
    IN  [a |-> a, b |-> (r.b + a - oldc * Pow2(bshift)) % RsumModulus]

(***************************************************************************)
(* Strong checksum.  QCryptographicHash::Md4 is a library function; the    *)
(* model keeps what the job relies on: a digest of CHECKSUM_SIZE bytes     *)
(* that is a function of the data alone, whose full length tells blocks    *)
(* apart and whose first byte collides for some blocks and not for others, *)
(* also among blocks of equal rolling sum.  The digest of a block of zeros *)
(* does not start with a zero byte (MD4 of 1, 2, 4, ... 8192 zero bytes    *)
(* starts with 47, d4, 1b, ... e2).                                        *)
(***************************************************************************)
Md4(data) ==
    [i \in 1..CHECKSUM_SIZE |->
        IF i = 1 THEN 1 + (((data[Len(data)] + 3 * data[1]) \div 2) % 2)
        ELSE IF i - 1 <= Len(data) THEN data[i - 1] + 1
        ELSE 0]

calcMd4Checksum(data, len) == Md4(SubSeq(data, 1, len))

(***************************************************************************)
(* The state.                                                              *)
(*   info       the Information the job was constructed from               *)
(*   stream     the bytes of info.checkSumBlocks                           *)
(*   seed       the seed file: its state on disk, its bytes and the read   *)
(*              position                                                   *)
(*   job        the members of ZsyncCoreJobPrivate                         *)
(*   target     the target file: current position, its bytes, the record   *)
(*              of the calls of writeBlocks (with, for each call, the ids  *)
(*              that were known already and whether the walk was for one   *)
(*              entry only) and the bytes the finished file shall hold     *)
(*   job also records the entries the last chain walk visited              *)
(*   pc         the position of operator()                                 *)
(*   file       the locals of submitSourceFile                             *)
(*   scan       the locals of the running submitSourceData                 *)
(*   result     the Result that operator() returns                         *)
(*   heap       which of the allocations of the job succeed: _pBlockHashes *)
(*              in the constructor, buf in submitSourceFile, _pRsumHash    *)
(*              and _pBitHash in buildHash                                 *)
(*   cancel     whether the caller has asked the run to stop               *)
(***************************************************************************)
VARIABLES info, heap, cancel, stream, seed, job, target, pc, file, scan, result

vars == <<info, heap, cancel, stream, seed, job, target, pc, file, scan, result>>

(***************************************************************************)
(* Known ranges: _pRanges holds 2 * _nRanges block ids.                    *)
(***************************************************************************)
RECURSIVE Bisect(_, _, _, _)
Bisect(ranges, x, min, max) ==
    IF min <= max
    THEN LET r == (max + min) \div 2
         IN  IF x > ranges[2 * r + 1 + 1] THEN Bisect(ranges, x, r + 1, max)
             ELSE IF x < ranges[2 * r + 1] THEN Bisect(ranges, x, min, r - 1)
             ELSE -1
    ELSE min

\* the bisection taking the last block of range r for one after the range
RECURSIVE BisectPastEnd(_, _, _, _)
BisectPastEnd(ranges, x, min, max) ==
    IF min <= max
    THEN LET r == (max + min) \div 2
         IN  IF x >= ranges[2 * r + 1 + 1] THEN BisectPastEnd(ranges, x, r + 1, max)
             ELSE IF x < ranges[2 * r + 1] THEN BisectPastEnd(ranges, x, min, r - 1)
             ELSE -1
    ELSE min

\* rangeBeforeBlock with that bisection
rangeBeforeBlockPastEnd(j, x) == BisectPastEnd(j.ranges, x, 0, j.nRanges - 1)

rangeBeforeBlock(j, x) == Bisect(j.ranges, x, 0, j.nRanges - 1)

\* memmove of the pairs from index `from` on to index `to` of the array
RemovePair(ranges, r) == SubSeq(ranges, 1, 2 * r) \o SubSeq(ranges, 2 * r + 3, Len(ranges))

InsertPair(ranges, r, x) ==
    SubSeq(ranges, 1, 2 * r) \o <<x, x>> \o SubSeq(ranges, 2 * r + 1, Len(ranges))

\* addToRanges without the merge of the two ranges whose gap x fills
addToRangesNoMerge(j, x) ==
    LET r == rangeBeforeBlock(j, x)
        R == j.ranges
    IN  IF r = -1 THEN j
        ELSE IF r > 0 /\ j.nRanges # 0 /\ R[2 * (r - 1) + 1 + 1] = x - 1
        THEN [j EXCEPT !.ranges[2 * (r - 1) + 1 + 1] = x]
        ELSE IF r < j.nRanges /\ R[2 * r + 1] = x + 1
        THEN [j EXCEPT !.ranges[2 * r + 1] = x]
        ELSE [j EXCEPT !.ranges = InsertPair(R, r, x),
                       !.nRanges = j.nRanges + 1]

\* addToRanges merging two ranges without taking over the end of the upper
addToRangesLoseUpper(j, x) ==
    LET r == rangeBeforeBlock(j, x)
        R == j.ranges
    IN  IF r = -1 THEN j
        ELSE IF r > 0 /\ r < j.nRanges
                /\ R[2 * (r - 1) + 1 + 1] = x - 1
                /\ R[2 * r + 1] = x + 1
        THEN [j EXCEPT !.ranges = RemovePair(R, r),
                       !.nRanges = j.nRanges - 1]
        ELSE IF r > 0 /\ j.nRanges # 0 /\ R[2 * (r - 1) + 1 + 1] = x - 1
        THEN [j EXCEPT !.ranges[2 * (r - 1) + 1 + 1] = x]
        ELSE IF r < j.nRanges /\ R[2 * r + 1] = x + 1
        THEN [j EXCEPT !.ranges[2 * r + 1] = x]
        ELSE [j EXCEPT !.ranges = InsertPair(R, r, x),
                       !.nRanges = j.nRanges + 1]

addToRanges(j, x) ==
    LET r == rangeBeforeBlock(j, x)
        R == j.ranges
    IN  IF r = -1 THEN j
        ELSE IF r > 0 /\ r < j.nRanges
                /\ R[2 * (r - 1) + 1 + 1] = x - 1
                /\ R[2 * r + 1] = x + 1
        THEN [j EXCEPT !.ranges = RemovePair([R EXCEPT ![2 * (r - 1) + 1 + 1] = R[2 * r + 1 + 1]], r),
                       !.nRanges = j.nRanges - 1]
        ELSE IF r > 0 /\ j.nRanges # 0 /\ R[2 * (r - 1) + 1 + 1] = x - 1
        THEN [j EXCEPT !.ranges[2 * (r - 1) + 1 + 1] = x]
        ELSE IF r < j.nRanges /\ R[2 * r + 1] = x + 1
        THEN [j EXCEPT !.ranges[2 * r + 1] = x]
        ELSE [j EXCEPT !.ranges = InsertPair(R, r, x),
                       !.nRanges = j.nRanges + 1]

alreadyGotBlock(j, x) == rangeBeforeBlock(j, x) = -1

\* nextKnownBlock giving the last block of the next range
nextKnownBlockEndOfRange(j, x) ==
    LET r == rangeBeforeBlock(j, x)
    IN  IF r = -1 THEN x
        ELSE IF r = j.nRanges THEN j.nBlocks
        ELSE j.ranges[2 * r + 1 + 1]

nextKnownBlock(j, x) ==
    LET r == rangeBeforeBlock(j, x)
    IN  IF r = -1 THEN x
        ELSE IF r = j.nRanges THEN j.nBlocks
        ELSE j.ranges[2 * r + 1]

(***************************************************************************)
(* The rsum hash.  blockHashes[id + 1] is _pBlockHashes[id].               *)
(***************************************************************************)
calcRHash(j, id) ==
    LET e0 == j.blockHashes[id + 1]
        e1 == j.blockHashes[id + 2]
    IN  Xor(e0.r.b,
            (IF j.nSeqMatches > 1 THEN e1.r.b
             ELSE e0.r.a % (j.weakCheckSumMask + 1)) * Pow2(BITHASHBITS))

getHashEntryBlockId(e) == e

\* the loop of buildHash that picks the size of the hash
RECURSIVE HashBits(_, _)
HashBits(i, blocks) ==
    IF Pow2(i) > blocks /\ i > 4 THEN HashBits(i - 1, blocks) ELSE i

\* FillHash setting the bit of the bucket of the rsum hash
RECURSIVE FillHashBitOfBucket(_, _)
FillHashBitOfBucket(j, id) ==
    IF id > 0
    THEN LET e == id - 1
             h == calcRHash(j, e)
             k == h % (j.hashMask + 1)
             j1 == [j EXCEPT !.blockHashes[e + 1].next = j.rsumHash[k],
                             !.rsumHash[k] = e,
                             !.bitHash = @ \cup {<<k \div 8, h % 8>>}]
         IN  FillHashBitOfBucket(j1, e)
    ELSE j

\* the loop of buildHash that fills the tables, id counting down
RECURSIVE FillHash(_, _)
FillHash(j, id) ==
    IF id > 0
    THEN LET e == id - 1
             h == calcRHash(j, e)
             k == h % (j.hashMask + 1)
             hb == h % (j.bitHashMask + 1)
             j1 == [j EXCEPT !.blockHashes[e + 1].next = j.rsumHash[k],
                             !.rsumHash[k] = e,
                             !.bitHash = @ \cup {<<hb \div 8, h % 8>>}]
         IN  FillHash(j1, e)
    ELSE j

\* buildHash: job is the job after it, ok what it returns; a calloc that
\* fails leaves _pRsumHash (<<>>) null
buildHash(j) ==
    LET i == HashBits(16, j.nBlocks)
        hashMask == Pow2(i + 1) - 1
        bitHashMask == Pow2(i + 1 + BITHASHBITS) - 1
        j1 == [j EXCEPT !.hashMask = hashMask,
                        !.rsumHash = [k \in 0..hashMask |-> NULL],
                        !.bitHashMask = bitHashMask,
                        !.bitHash = {}]
    IN  IF ~heap.rsumHash
        THEN [job |-> [j EXCEPT !.hashMask = hashMask, !.rsumHash = <<>>], ok |-> 0]
        ELSE IF ~heap.bitHash
        THEN [job |-> [j EXCEPT !.hashMask = hashMask, !.bitHashMask = bitHashMask,
                                !.rsumHash = <<>>, !.bitHash = {}],
              ok |-> 0]
        ELSE [job |-> FillHash(j1, j.nBlocks), ok |-> 1]

\* the walk of removeBlockFromHash: p is the bucket (prev = NULL) or the
\* next field of entry prev
RECURSIVE Unlink(_, _, _, _)
Unlink(j, k, prev, t) ==
    LET cur == IF prev = NULL THEN j.rsumHash[k] ELSE j.blockHashes[prev + 1].next
    IN  IF cur = NULL THEN j
        ELSE IF cur = t
        THEN LET j1 == IF t = j.rover
                       THEN [j EXCEPT !.rover = j.blockHashes[t + 1].next]
                       ELSE j
                 nxt == j.blockHashes[cur + 1].next
             IN  IF prev = NULL
                 THEN [j1 EXCEPT !.rsumHash[k] = nxt]
                 ELSE [j1 EXCEPT !.blockHashes[prev + 1].next = nxt]
        ELSE Unlink(j, k, cur, t)

\* removeBlockFromHash looking at the first entry of the chain only
removeBlockFromHashHeadOnly(j, id) ==
    IF j.rsumHash[calcRHash(j, id) % (j.hashMask + 1)] = id
    THEN Unlink(j, calcRHash(j, id) % (j.hashMask + 1), NULL, id)
    ELSE j

\* removeBlockFromHash leaving _pRover on the entry it unlinks
removeBlockFromHashKeepRover(j, id) ==
    [Unlink(j, calcRHash(j, id) % (j.hashMask + 1), NULL, id) EXCEPT !.rover = j.rover]

removeBlockFromHash(j, id) ==
    Unlink(j, calcRHash(j, id) % (j.hashMask + 1), NULL, id)

(***************************************************************************)
(* The target writer.  m = [job, target] is what a match changes.          *)
(***************************************************************************)
\* QFile::write of len bytes of data at the current position
FileWrite(bytes, at, data, len) ==
    IF len <= 0 THEN bytes
    ELSE [i \in 1..(IF at + len > Len(bytes) THEN at + len ELSE Len(bytes)) |->
            IF i > at /\ i <= at + len THEN data[i - at]
            ELSE IF i <= Len(bytes) THEN bytes[i]
            ELSE 0]

\* the loop of writeBlocks over the ids written
RECURSIVE DiscardBlocks(_, _, _)
DiscardBlocks(j, id, bto) ==
    IF id <= bto
    THEN DiscardBlocks(addToRanges(removeBlockFromHash(j, id), id), id + 1, bto)
    ELSE j

\* writeBlocks leaving the file where the write ended
writeBlocksNoRestore(m, data, bfrom, bto) ==
    LET j == m.job
        len == ((bto + j.nBlockIdOffset) - (bfrom + j.nBlockIdOffset) + 1) * Pow2(j.nBlockShift)
        offset == (bfrom + j.nBlockIdOffset) * Pow2(j.nBlockShift)
        \* pos(), seek(offset), write(data, len), seek(pos)
        pos == m.target.pos
        sought == offset
        written == sought + (IF len > 0 THEN len ELSE 0)
        restored == written
        call == [bfrom |-> bfrom, bto |-> bto, offset |-> sought, len |-> len,
                 data |-> IF len > 0 THEN SubSeq(data, 1, len) ELSE <<>>,
                 known |-> {b \in bfrom..bto : alreadyGotBlock(j, b)},
                 onlyone |-> j.onlyone,
                 pos |-> pos]
    IN  [job |-> DiscardBlocks(j, bfrom, bto),
         target |-> [m.target EXCEPT
                        !.pos = restored,
                        !.bytes = FileWrite(m.target.bytes, sought, data, len),
                        !.writes = Append(m.target.writes, call)]]

\* writeBlocks taking the block id for the id in the whole target file
writeBlocksNoOffset(m, data, bfrom, bto) ==
    LET j == m.job
        len == ((bto + j.nBlockIdOffset) - (bfrom + j.nBlockIdOffset) + 1) * Pow2(j.nBlockShift)
        offset == bfrom * Pow2(j.nBlockShift)
        \* pos(), seek(offset), write(data, len), seek(pos)
        pos == m.target.pos
        sought == offset
        written == sought + (IF len > 0 THEN len ELSE 0)
        restored == pos
        call == [bfrom |-> bfrom, bto |-> bto, offset |-> sought, len |-> len,
                 data |-> IF len > 0 THEN SubSeq(data, 1, len) ELSE <<>>,
                 known |-> {b \in bfrom..bto : alreadyGotBlock(j, b)},
                 onlyone |-> j.onlyone,
                 pos |-> pos]
    IN  [job |-> DiscardBlocks(j, bfrom, bto),
         target |-> [m.target EXCEPT
                        !.pos = restored,
                        !.bytes = FileWrite(m.target.bytes, sought, data, len),
                        !.writes = Append(m.target.writes, call)]]

\* writeBlocks: the write into the target file, then the bookkeeping
writeBlocks(m, data, bfrom, bto) ==
    LET j == m.job
        len == ((bto + j.nBlockIdOffset) - (bfrom + j.nBlockIdOffset) + 1) * Pow2(j.nBlockShift)
        offset == (bfrom + j.nBlockIdOffset) * Pow2(j.nBlockShift)
        \* pos(), seek(offset), write(data, len), seek(pos)
        pos == m.target.pos
        sought == offset
        written == sought + (IF len > 0 THEN len ELSE 0)
        restored == pos
        call == [bfrom |-> bfrom, bto |-> bto, offset |-> sought, len |-> len,
                 data |-> IF len > 0 THEN SubSeq(data, 1, len) ELSE <<>>,
                 known |-> {b \in bfrom..bto : alreadyGotBlock(j, b)},
                 onlyone |-> j.onlyone,
                 pos |-> pos]
    IN  [job |-> DiscardBlocks(j, bfrom, bto),
         target |-> [m.target EXCEPT
                        !.pos = restored,
                        !.bytes = FileWrite(m.target.bytes, sought, data, len),
                        !.writes = Append(m.target.writes, call)]]

(***************************************************************************)
(* Hash chain matching.                                                    *)
(***************************************************************************)
\* StrongLoop comparing one byte less than nStrongCheckSumBytes
RECURSIVE StrongLoopShort(_, _, _, _, _)
StrongLoopShort(j, data, id, onlyone, c) ==
    LET k == c.check_md4
        c1 == IF k > c.done_md4
              THEN [c EXCEPT !.md4sum[k + 1] =
                                 calcMd4Checksum(Bytes(data, j.nBlockSize * k, j.nBlockSize),
                                                 j.nBlockSize),
                             !.done_md4 = k]
              ELSE c
        differ == SubSeq(c1.md4sum[k + 1], 1, j.nStrongCheckSumBytes - 1)
                    # SubSeq(j.blockHashes[id + k + 1].checksum, 1, j.nStrongCheckSumBytes - 1)
        c2 == [c1 EXCEPT !.ok = IF differ THEN 0 ELSE @, !.check_md4 = k + 1]
    IN  IF c2.ok = 1 /\ ~onlyone /\ c2.check_md4 < j.nSeqMatches
        THEN StrongLoopShort(j, data, id, onlyone, c2)
        ELSE c2

\* StrongLoop leaving its loop after the first block
StrongLoopFirstOnly(j, data, id, onlyone, c) ==
    LET k == c.check_md4
        c1 == IF k > c.done_md4
              THEN [c EXCEPT !.md4sum[k + 1] =
                                 calcMd4Checksum(Bytes(data, j.nBlockSize * k, j.nBlockSize),
                                                 j.nBlockSize),
                             !.done_md4 = k]
              ELSE c
        differ == SubSeq(c1.md4sum[k + 1], 1, j.nStrongCheckSumBytes)
                    # SubSeq(j.blockHashes[id + k + 1].checksum, 1, j.nStrongCheckSumBytes)
    IN  [c1 EXCEPT !.ok = IF differ THEN 0 ELSE @, !.check_md4 = k + 1]

\* the do-while loop over check_md4; c = [ok, check_md4, done_md4, md4sum]
RECURSIVE StrongLoop(_, _, _, _, _)
StrongLoop(j, data, id, onlyone, c) ==
    LET k == c.check_md4
        c1 == IF k > c.done_md4
              THEN [c EXCEPT !.md4sum[k + 1] =
                                 calcMd4Checksum(Bytes(data, j.nBlockSize * k, j.nBlockSize),
                                                 j.nBlockSize),
                             !.done_md4 = k]
              ELSE c
        differ == SubSeq(c1.md4sum[k + 1], 1, j.nStrongCheckSumBytes)
                    # SubSeq(j.blockHashes[id + k + 1].checksum, 1, j.nStrongCheckSumBytes)
        c2 == [c1 EXCEPT !.ok = IF differ THEN 0 ELSE @, !.check_md4 = k + 1]
    IN  IF c2.ok = 1 /\ ~onlyone /\ c2.check_md4 < j.nSeqMatches
        THEN StrongLoop(j, data, id, onlyone, c2)
        ELSE c2

\* the weak checksum of entry id against a rolling sum
WeakDiffers(j, id, rs) ==
    \/ j.blockHashes[id + 1].r.a # rs.a % (j.weakCheckSumMask + 1)
    \/ j.blockHashes[id + 1].r.b # rs.b

\* what the chain walk does with an entry that passed the strong check
Matched(m, data, id, onlyone, check_md4) ==
    LET j == m.job
        next_known == IF onlyone THEN j.nNextKnown ELSE nextKnownBlock(j, id)
        more == next_known > id + check_md4
        num_write_blocks == IF more THEN check_md4 ELSE next_known - id
        j1 == IF more
              THEN [j EXCEPT !.nextMatch = id + check_md4,
                             !.nNextKnown = IF onlyone THEN @ ELSE next_known]
              ELSE j
    IN  [m |-> writeBlocks([m EXCEPT !.job = j1], data, id, id + num_write_blocks - 1),
         num |-> num_write_blocks]

\* the while loop over _pRover; w = [got_blocks, done_md4, md4sum, rs]
RECURSIVE ChainLoop(_, _, _, _)
ChainLoop(m, data, onlyone, w) ==
    IF m.job.rover = NULL THEN [m |-> m, got_blocks |-> w.got_blocks]
    ELSE LET e == m.job.rover
             j == [m.job EXCEPT !.rover = IF onlyone THEN NULL
                                          ELSE m.job.blockHashes[e + 1].next,
                                !.visited = Append(@, e)]
             m1 == [m EXCEPT !.job = j]
             id == getHashEntryBlockId(e)
         IN  IF WeakDiffers(j, e, w.rs) THEN ChainLoop(m1, data, onlyone, w)
             ELSE IF ~onlyone /\ j.nSeqMatches > 1
                     /\ WeakDiffers(j, id + 1, j.currentWeakCheckSums.second)
             THEN ChainLoop(m1, data, onlyone, w)
             ELSE LET c == StrongLoop(j, data, id, onlyone,
                                      [ok |-> 1, check_md4 |-> 0,
                                       done_md4 |-> w.done_md4, md4sum |-> w.md4sum])
                      w1 == [w EXCEPT !.done_md4 = c.done_md4, !.md4sum = c.md4sum]
                  IN  IF c.ok = 1
                      THEN LET r == Matched(m1, data, id, onlyone, c.check_md4)
                           IN  ChainLoop(r.m, data, onlyone,
                                         [w1 EXCEPT !.got_blocks = @ + r.num])
                      ELSE ChainLoop(m1, data, onlyone, w1)

checkCheckSumsOnHashChain(m, e, data, onlyone) ==
    ChainLoop([m EXCEPT !.job.nextMatch = NULL, !.job.rover = e,
                        !.job.visited = <<>>, !.job.onlyone = onlyone],
              data, onlyone,
              [got_blocks |-> 0, done_md4 |-> -1,
               md4sum |-> <<Zeros(CHECKSUM_SIZE), Zeros(CHECKSUM_SIZE)>>,
               rs |-> m.job.currentWeakCheckSums.first])

(***************************************************************************)
(* The report of the required ranges.                                      *)
(***************************************************************************)
\* the for loop of getRequiredRanges over the known ranges; ret_ranges is a
\* sequence of pairs <<first, second>>, at(k) is ret[k + 1]
RECURSIVE RangesLoop(_, _, _, _)
RangesLoop(j, i, ret, n) ==
    IF i < j.nRanges
    THEN LET from == 0 + j.nBlockIdOffset
             to == j.nBlocks + j.nBlockIdOffset
             lo == j.ranges[2 * i + 1] + j.nBlockIdOffset
             hi == j.ranges[2 * i + 1 + 1] + j.nBlockIdOffset
             ret1 == Append(ret, IF n = 1 THEN <<from, to>> ELSE <<0, 0>>)
         IN  IF lo > ret1[n][2] THEN RangesLoop(j, i + 1, ret1, n)
             ELSE IF hi < from THEN RangesLoop(j, i + 1, ret1, n)
             ELSE IF n = 1 /\ lo <= from
             THEN RangesLoop(j, i + 1, [ret1 EXCEPT ![1][1] = hi + 1], n)
             ELSE IF hi >= ret1[n][2] - 1
             THEN RangesLoop(j, i + 1, [ret1 EXCEPT ![n][2] = lo], n)
             ELSE RangesLoop(j, i + 1,
                             [ret1 EXCEPT ![n + 1] = <<hi + 1, ret1[n][2]>>,
                                          ![n][2] = lo],
                             n + 1)
    ELSE [ret |-> ret, n |-> n]

\* QVector::removeAll
RECURSIVE RemoveAll(_, _)
RemoveAll(s, v) ==
    IF s = <<>> THEN <<>>
    ELSE IF Head(s) = v THEN RemoveAll(Tail(s), v)
    ELSE <<Head(s)>> \o RemoveAll(Tail(s), v)

\* BlocksMd4Sum with the loop for (x = from; x < to; x++)
BlocksMd4SumExclusive(j, pair) ==
    LET from == pair[1] - j.nBlockIdOffset
        to == pair[2] - j.nBlockIdOffset
    IN  [k \in 1..(IF to > from THEN to - from ELSE 0) |->
            SubSeq(j.blockHashes[from + k - 1 + 1].checksum, 1, j.nStrongCheckSumBytes)]

\* the checksums attached to a returned range
BlocksMd4Sum(j, pair) ==
    LET from == pair[1] - j.nBlockIdOffset
        to == pair[2] - j.nBlockIdOffset
    IN  [k \in 1..(IF to >= from THEN to - from + 1 ELSE 0) |->
            SubSeq(j.blockHashes[from + k - 1 + 1].checksum, 1, j.nStrongCheckSumBytes)]

\* getRequiredRanges starting from the window (from, to - 1)
getRequiredRangesShortWindow(j) ==
    LET from == 0 + j.nBlockIdOffset
        to == j.nBlocks + j.nBlockIdOffset - 1
        l == RangesLoop(j, 0, <<<<from, to>>, <<0, 0>>>>, 1)
        ret == IF l.n = 1 /\ l.ret[1][1] >= l.ret[1][2] THEN <<>> ELSE l.ret
        ret_ranges == RemoveAll(ret, <<0, 0>>)
    IN  IF ret_ranges # <<>>
        THEN [null |-> FALSE,
              ranges |-> [k \in 1..Len(ret_ranges) |->
                            [range |-> ret_ranges[k],
                             sums |-> BlocksMd4Sum(j, ret_ranges[k])]]]
        ELSE [null |-> TRUE, ranges |-> <<>>]

\* getRequiredRanges dropping the window only if first > second
getRequiredRangesStrict(j) ==
    LET from == 0 + j.nBlockIdOffset
        to == j.nBlocks + j.nBlockIdOffset
        l == RangesLoop(j, 0, <<<<from, to>>, <<0, 0>>>>, 1)
        ret == IF l.n = 1 /\ l.ret[1][1] > l.ret[1][2] THEN <<>> ELSE l.ret
        ret_ranges == RemoveAll(ret, <<0, 0>>)
    IN  IF ret_ranges # <<>>
        THEN [null |-> FALSE,
              ranges |-> [k \in 1..Len(ret_ranges) |->
                            [range |-> ret_ranges[k],
                             sums |-> BlocksMd4Sum(j, ret_ranges[k])]]]
        ELSE [null |-> TRUE, ranges |-> <<>>]

getRequiredRanges(j) ==
    LET from == 0 + j.nBlockIdOffset
        to == j.nBlocks + j.nBlockIdOffset
        l == RangesLoop(j, 0, <<<<from, to>>, <<0, 0>>>>, 1)
        ret == IF l.n = 1 /\ l.ret[1][1] >= l.ret[1][2] THEN <<>> ELSE l.ret
        ret_ranges == RemoveAll(ret, <<0, 0>>)
    IN  IF ret_ranges # <<>>
        THEN [null |-> FALSE,
              ranges |-> [k \in 1..Len(ret_ranges) |->
                            [range |-> ret_ranges[k],
                             sums |-> BlocksMd4Sum(j, ret_ranges[k])]]]
        ELSE [null |-> TRUE, ranges |-> <<>>]

(***************************************************************************)
(* The checksum stream of a target, as the control file holds it: for each *)
(* block the last weak bytes of the big-endian (a, b) and the first strong *)
(* bytes of its MD4.                                                       *)
(***************************************************************************)
BigEndianRsum(r) == <<r.a \div 256, r.a % 256, r.b \div 256, r.b % 256>>

RECURSIVE CheckSumBlocksOf(_, _, _, _)
CheckSumBlocksOf(data, bs, weak, strong) ==
    IF data = <<>> THEN <<>>
    ELSE LET block == SubSeq(data, 1, bs)
         IN  SubSeq(BigEndianRsum(calc_rsum_block(block)), 4 - weak + 1, 4)
               \o SubSeq(Md4(block), 1, strong)
               \o CheckSumBlocksOf(SubSeq(data, bs + 1, Len(data)), bs, weak, strong)

(***************************************************************************)
(* Parsing the checksum stream.                                            *)
(***************************************************************************)
\* QIODevice::read of at most n bytes at pos
ReadBytes(bytes, pos, n) ==
    SubSeq(bytes, pos + 1, IF pos + n > Len(bytes) THEN Len(bytes) ELSE pos + n)

\* the for loop of parseTargetFileCheckSumBlocks; a read that gives fewer
\* strong bytes than asked leaves the rest of checksum[16] as the stack had
\* it (garbage)
RECURSIVE ParseLoop(_, _, _, _, _)
ParseLoop(j, bytes, id, pos, garbage) ==
    IF id < j.nBlocks
    THEN LET weak == ReadBytes(bytes, pos, j.nWeakCheckSumBytes)
             strong == ReadBytes(bytes, pos + Len(weak), j.nStrongCheckSumBytes)
             \* the four bytes of r, the bytes read put at offset 4 - weak bytes
             raw == [i \in 1..4 |->
                        IF i > 4 - j.nWeakCheckSumBytes
                           /\ i - (4 - j.nWeakCheckSumBytes) <= Len(weak)
                        THEN weak[i - (4 - j.nWeakCheckSumBytes)] ELSE 0]
             a == raw[1] * 256 + raw[2]
             b == raw[3] * 256 + raw[4]
             checksum == [i \in 1..CHECKSUM_SIZE |->
                            IF i <= Len(strong) THEN strong[i]
                            ELSE IF i <= j.nStrongCheckSumBytes THEN garbage
                            ELSE 0]
         IN  IF Len(weak) < 1 \/ Len(strong) < 1
             THEN [job |-> j, errorCode |-> QBUFFER_IO_READ_ERROR]
             ELSE ParseLoop([j EXCEPT !.blockHashes[id + 1] =
                                [r |-> [a |-> a % (j.weakCheckSumMask + 1), b |-> b],
                                 checksum |-> checksum,
                                 next |-> @.next]],
                            bytes, id + 1, pos + Len(weak) + Len(strong), garbage)
    ELSE [job |-> [j EXCEPT !.rsumHash = <<>>, !.bitHash = {}], errorCode |-> 0]

parseTargetFileCheckSumBlocks(j, s, garbage) ==
    IF j.blockHashes = <<>>
    THEN [job |-> j, errorCode |-> HASH_TABLE_NOT_ALLOCATED]
    ELSE IF s.null \/ Len(s.bytes) < j.nWeakCheckSumBytes + j.nStrongCheckSumBytes
    THEN [job |-> j, errorCode |-> INVALID_TARGET_FILE_CHECKSUM_BLOCKS]
    ELSE IF ~s.canOpen
    THEN [job |-> j, errorCode |-> CANNOT_OPEN_TARGET_FILE_CHECKSUM_BLOCKS]
    ELSE ParseLoop(j, s.bytes, 0, 0, garbage)

(***************************************************************************)
(* Construction.                                                           *)
(***************************************************************************)
BlockShift(blockSize) ==
    IF blockSize = 1024 THEN 10 ELSE IF blockSize = 2048 THEN 11 ELSE Log2(blockSize)

ZeroRsum == [a |-> 0, b |-> 0]

\* ZsyncCoreJobPrivate taking no notice of info.seqMatches
ZsyncCoreJobPrivateOneBlock(i) ==
    [nBlockSize |-> i.blockSize,
     nBlockIdOffset |-> i.blockIdOffset,
     nBlocks |-> i.blocks,
     weakCheckSumMask |-> IF i.weakCheckSumBytes < 3 THEN 0
                          ELSE IF i.weakCheckSumBytes = 3 THEN 255 ELSE 65535,
     nWeakCheckSumBytes |-> i.weakCheckSumBytes,
     nStrongCheckSumBytes |-> i.strongCheckSumBytes,
     nSeqMatches |-> 1,
     nContext |-> i.blockSize,
     nBlockShift |-> BlockShift(i.blockSize),
     blockHashes |-> [k \in 1..(i.blocks + i.seqMatches) |->
                        [r |-> ZeroRsum, checksum |-> Zeros(CHECKSUM_SIZE), next |-> NULL]],
     rsumHash |-> <<>>,
     bitHash |-> {},
     hashMask |-> 0,
     bitHashMask |-> 0,
     ranges |-> <<>>,
     nRanges |-> 0,
     rover |-> NULL,
     nextMatch |-> NULL,
     nNextKnown |-> Uninitialised,
     nSkip |-> 0,
     currentWeakCheckSums |-> [first |-> ZeroRsum, second |-> ZeroRsum],
     visited |-> <<>>,
     onlyone |-> FALSE]

\* the members after ZsyncCoreJobPrivate(info); _pBlockHashes is calloc'ed
ZsyncCoreJobPrivate(i) ==
    [nBlockSize |-> i.blockSize,
     nBlockIdOffset |-> i.blockIdOffset,
     nBlocks |-> i.blocks,
     weakCheckSumMask |-> IF i.weakCheckSumBytes < 3 THEN 0
                          ELSE IF i.weakCheckSumBytes = 3 THEN 255 ELSE 65535,
     nWeakCheckSumBytes |-> i.weakCheckSumBytes,
     nStrongCheckSumBytes |-> i.strongCheckSumBytes,
     nSeqMatches |-> i.seqMatches,
     nContext |-> i.blockSize * i.seqMatches,
     nBlockShift |-> BlockShift(i.blockSize),
     blockHashes |-> [k \in 1..(i.blocks + i.seqMatches) |->
                        [r |-> ZeroRsum, checksum |-> Zeros(CHECKSUM_SIZE), next |-> NULL]],
     rsumHash |-> <<>>,
     bitHash |-> {},
     hashMask |-> 0,
     bitHashMask |-> 0,
     ranges |-> <<>>,
     nRanges |-> 0,
     rover |-> NULL,
     nextMatch |-> NULL,
     nNextKnown |-> Uninitialised,
     nSkip |-> 0,
     currentWeakCheckSums |-> [first |-> ZeroRsum, second |-> ZeroRsum],
     visited |-> <<>>,
     onlyone |-> FALSE]

(***************************************************************************)
(* The inputs.                                                             *)
(***************************************************************************)
Info(bs, off, blocks, weak, strong, seq) ==
    [blockSize |-> bs, blockIdOffset |-> off, blocks |-> blocks,
     weakCheckSumBytes |-> weak, strongCheckSumBytes |-> strong, seqMatches |-> seq]

\* jobs with blocks of one byte
SmallInfos ==
    {Info(1, off, n, 4, 2, seq) : off \in {0, 2}, n \in 1..MaxBlocks, seq \in {1, 2}}

\* jobs with blocks of two bytes and one strong checksum byte: with two weak
\* checksum bytes both the rolling sums and the digests of different blocks
\* collide
PairInfos ==
    {Info(2, 0, n, 2, 1, seq) : n \in 1..MaxPairBlocks, seq \in {1, 2}}
        \cup {Info(2, 0, 1, 3, 1, 1)}

\* the bytes of the letters A..Z
Ascii(letters) == [k \in 1..Len(letters) |-> 64 + letters[k]]

ABCDEFGHIJKLMNOP == Ascii([k \in 1..16 |-> k])
ABCDEFGH == Ascii([k \in 1..8 |-> k])
XXXXABCDYYYYIJKL == Ascii(<<24, 24, 24, 24, 1, 2, 3, 4, 25, 25, 25, 25, 9, 10, 11, 12>>)
QQABCDQQEFGHQQ == Ascii(<<17, 17, 1, 2, 3, 4, 17, 17, 5, 6, 7, 8, 17, 17>>)
QQABCDQQ == Ascii(<<17, 17, 1, 2, 3, 4, 17, 17>>)

\* a heap on which every allocation succeeds
AllAllocated == [blockHashes |-> TRUE, buf |-> TRUE, rsumHash |-> TRUE, bitHash |-> TRUE]

\* the checksum stream of target t
StreamOf(i, t) ==
    [null |-> FALSE, canOpen |-> TRUE,
     bytes |-> CheckSumBlocksOf(t, i.blockSize, i.weakCheckSumBytes,
                                i.strongCheckSumBytes)]

\* the Result that operator() starts from
ResultInit ==
    [errorCode |-> 0, gotBlocks |-> 0, requiredRanges |-> [null |-> TRUE, ranges |-> <<>>]]

\* the state after the construction of the job for target t with checksum
\* stream strm, seed s in state st, heap hp and the target file at pos
StartAt(i, t, strm, s, st, hp, pos) ==
    /\ info = i
    /\ heap = hp
    /\ cancel = FALSE
    /\ stream = strm
    /\ seed = [state |-> st, bytes |-> s, pos |-> 0]
    /\ job = IF hp.blockHashes THEN ZsyncCoreJobPrivate(i)
             ELSE [ZsyncCoreJobPrivate(i) EXCEPT !.blockHashes = <<>>]
    /\ target = [pos |-> pos,
                 bytes |-> Zeros((i.blocks + i.blockIdOffset) * i.blockSize),
                 writes |-> <<>>,
                 wanted |-> t]
    /\ pc = "parse"
    /\ file = [got_blocks |-> 0, in |-> 0, buf |-> <<>>, len |-> 0]
    /\ scan = [x |-> 0, got_blocks |-> 0]
    /\ result = ResultInit

\* the state after the construction of the job with the whole checksum
\* stream of the target, every allocation succeeding
Start(i, t, s, st) == StartAt(i, t, StreamOf(i, t), s, st, AllAllocated, 0)

\* every job with one-byte blocks with every small target and seed
SmallInit ==
    \E i \in SmallInfos :
        \E t \in [1..i.blocks -> 0..MaxByte] :
            \E n \in 0..MaxSeedLen :
                \E s \in [1..n -> 0..MaxByte] : Start(i, t, s, "ok")

\* every job with two-byte blocks with every small target and seed
PairInit ==
    \E i \in PairInfos :
        \E t \in [1..(i.blocks * 2) -> 0..MaxPairByte] :
            \E n \in 0..MaxSeedLen :
                \E s \in [1..n -> 0..MaxPairByte] : Start(i, t, s, "ok")

\* the literal scenarios with blocks of four bytes
ScenarioInit ==
    \/ \E off \in {0, 2}, s \in {XXXXABCDYYYYIJKL, ABCDEFGHIJKLMNOP, <<>>} :
          Start(Info(4, off, 4, 4, 16, 1), ABCDEFGHIJKLMNOP, s, "ok")
    \/ \E off \in {0, 2}, s \in {QQABCDQQEFGHQQ, QQABCDQQ, ABCDEFGH} :
          Start(Info(4, off, 2, 4, 16, 2), ABCDEFGH, s, "ok")

\* seed files that cannot be opened
SeedErrorInit ==
    \E st \in {"missing", "unreadable", "unopenable"} :
        Start(Info(1, 0, 1, 4, 2, 1), <<1>>, <<>>, st)

\* checksum streams that are missing, cannot be opened or are cut short
BrokenStreams(i, t) ==
    {[null |-> TRUE, canOpen |-> FALSE, bytes |-> <<>>],
     [StreamOf(i, t) EXCEPT !.canOpen = FALSE]}
        \cup {[StreamOf(i, t) EXCEPT !.bytes = SubSeq(@, 1, n)] :
                 n \in 0..(Len(StreamOf(i, t).bytes) - 1)}

\* jobs with a broken checksum stream, with a seed that is there or missing
StreamErrorInit ==
    \E i \in {Info(1, 0, n, 4, 2, 1) : n \in 1..MaxBrokenBlocks} :
        \E t \in [1..i.blocks -> 0..MaxByte] :
            \E strm \in BrokenStreams(i, t), st \in {"ok", "missing"} :
                StartAt(i, t, strm, t, st, AllAllocated, 0)

\* heaps on which one allocation fails
FailingHeaps ==
    {[AllAllocated EXCEPT ![a] = FALSE] : a \in {"blockHashes", "buf", "rsumHash", "bitHash"}}

\* jobs one of whose allocations fails, the seed being the target
AllocFailureInit ==
    \E i \in {Info(1, 0, n, 4, 2, seq) : n \in 1..MaxBrokenBlocks, seq \in {1, 2}} :
        \E t \in [1..i.blocks -> 0..MaxByte] :
            \E hp \in FailingHeaps, st \in {"ok", "missing"} :
                StartAt(i, t, StreamOf(i, t), t, st, hp, 0)

\* seeds longer than the buffer of 16 blocks: all zero, alternating, in
\* pairs; seeds that fill the buffer or are longer, of z zeros and then ones,
\* the ones starting where the first buffer ends
LongSeeds ==
    {[k \in 1..n |-> 0] : n \in (BufferBlocks + 1)..MaxLongSeedLen}
        \cup {[k \in 1..n |-> k % 2] : n \in (BufferBlocks + 1)..MaxLongSeedLen}
        \cup {[k \in 1..n |-> (k \div 2) % 2] : n \in (BufferBlocks + 1)..MaxLongSeedLen}
        \cup {[k \in 1..n |-> IF k > z THEN 1 ELSE 0] :
                 n \in BufferBlocks..MaxLongSeedLen,
                 z \in (BufferBlocks - 3)..BufferBlocks}

\* jobs with one-byte blocks and a seed that takes more than one buffer, the
\* caller's target file at its start or further on
LongSeedInit ==
    \E i \in {Info(1, 0, n, 4, 2, seq) : n \in 2..MaxLongBlocks, seq \in {1, 2}} :
        \E t \in [1..i.blocks -> 0..MaxByte] :
            \E s \in LongSeeds, pos \in {0, 3} :
                StartAt(i, t, StreamOf(i, t), s, "ok", AllAllocated, pos)

\* jobs with two-byte blocks and a seed that fills the buffer or is longer,
\* of z zeros and then ones, the ones starting where the first buffer ends
LongPairSeedInit ==
    \E i \in {Info(2, 0, n, 4, 2, seq) : n \in 1..MaxPairBlocks, seq \in {1, 2}} :
        \E t \in [1..(i.blocks * 2) -> 0..MaxByte] :
            \E n \in (2 * BufferBlocks)..(2 * BufferBlocks + MaxLongSeedLen - BufferBlocks),
               z \in (2 * BufferBlocks - 4)..(2 * BufferBlocks) :
                Start(i, t, [k \in 1..n |-> IF k > z THEN 1 ELSE 0], "ok")

Init ==
    \/ SmallInit
    \/ PairInit
    \/ ScenarioInit
    \/ SeedErrorInit
    \/ StreamErrorInit
    \/ AllocFailureInit
    \/ LongSeedInit
    \/ LongPairSeedInit

(***************************************************************************)
(* operator(): parse, open the seed, scan it, report.                      *)
(***************************************************************************)
\* the values a byte of the stack may hold where nothing was read into it
StackBytes == 0..(MaxByte + 1)

\* ParseTargetFileCheckSumBlocks going on to the seed whatever the parse gave
ParseTargetFileCheckSumBlocksUnchecked ==
    /\ pc = "parse"
    /\ \E garbage \in StackBytes :
       LET p == parseTargetFileCheckSumBlocks(job, stream, garbage)
       IN  /\ job' = p.job
           /\ result' = [result EXCEPT !.errorCode = p.errorCode]
           /\ pc' = "open"
    /\ UNCHANGED <<info, heap, cancel, stream, seed, target, file, scan>>

ParseTargetFileCheckSumBlocks ==
    /\ pc = "parse"
    /\ \E garbage \in StackBytes :
       LET p == parseTargetFileCheckSumBlocks(job, stream, garbage)
       IN  /\ job' = p.job
           /\ result' = [result EXCEPT !.errorCode = p.errorCode]
           /\ pc' = IF p.errorCode # 0 THEN "done" ELSE "open"
    /\ UNCHANGED <<info, heap, cancel, stream, seed, target, file, scan>>

tryOpenSeedFile(s) ==
    IF s.state = "missing" THEN SOURCE_FILE_NOT_FOUND
    ELSE IF s.state = "unreadable" THEN NO_PERMISSION_TO_READ_SOURCE_FILE
    ELSE IF s.state = "unopenable" THEN CANNOT_OPEN_SOURCE_FILE
    ELSE 0

TryOpenSeedFile ==
    /\ pc = "open"
    /\ result' = [result EXCEPT !.errorCode = tryOpenSeedFile(seed)]
    /\ pc' = IF tryOpenSeedFile(seed) # 0 THEN "done" ELSE "submit"
    /\ UNCHANGED <<info, heap, cancel, stream, seed, job, target, file, scan>>

\* submitSourceFile up to its read loop: the buffer and the hash tables
SubmitSourceFileBegin ==
    /\ pc = "submit"
    /\ IF ~heap.buf
       THEN /\ pc' = "ranges"
            /\ seed' = [seed EXCEPT !.state = "closed"]
            /\ UNCHANGED <<job, file>>
       ELSE IF job.rsumHash = <<>> /\ buildHash(job).ok = 0
       THEN /\ job' = buildHash(job).job
            /\ pc' = "ranges"
            /\ seed' = [seed EXCEPT !.state = "closed"]
            /\ UNCHANGED file
       ELSE /\ file' = [got_blocks |-> 0, in |-> 0,
                        buf |-> [k \in 1..(job.nBlockSize * BufferBlocks + job.nContext) |->
                                    Uninitialised],
                        len |-> 0]
            /\ job' = IF job.rsumHash = <<>> THEN buildHash(job).job ELSE job
            /\ pc' = "read"
            /\ UNCHANGED seed
    /\ UNCHANGED <<info, heap, cancel, stream, target, scan, result>>

atEnd(s) == s.pos >= Len(s.bytes)

\* memcpy / QFile::read / memset into the buffer at index at
Store(buf, at, bytes) ==
    [k \in 1..Len(buf) |->
        IF k > at /\ k <= at + Len(bytes) THEN bytes[k - at] ELSE buf[k]]

\* the entry of submitSourceData, up to its loop
submitSourceDataBegin(j, data, offset) ==
    LET x == IF offset # 0 THEN j.nSkip ELSE 0
        bs == j.nBlockSize
        j1 == IF offset # 0 THEN j ELSE [j EXCEPT !.nextMatch = NULL]
        j2 == IF x # 0 \/ offset = 0
              THEN [j1 EXCEPT !.currentWeakCheckSums =
                        [first |-> calc_rsum_block(Bytes(data, x, bs)),
                         second |-> IF j.nSeqMatches > 1
                                    THEN calc_rsum_block(Bytes(data, x + bs, bs))
                                    ELSE @.second]]
              ELSE j1
    IN  [job |-> [j2 EXCEPT !.nSkip = 0], x |-> x]

\* ReadSeedFile without the zero padding at the end of the seed
ReadSeedFileNoPadding ==
    /\ pc = "read"
    /\ ~atEnd(seed)
    /\ LET bufsize == job.nBlockSize * BufferBlocks
           ctx == job.nContext
           start_in == file.in
           first == file.in = 0
           got == IF first THEN ReadBytes(seed.bytes, seed.pos, bufsize)
                  ELSE ReadBytes(seed.bytes, seed.pos, bufsize - ctx)
           buf1 == IF first THEN Store(file.buf, 0, got)
                   ELSE Store(Store(file.buf, 0, Bytes(file.buf, bufsize - ctx, ctx)),
                              ctx, got)
           in1 == IF first THEN file.in + Len(got) ELSE file.in + bufsize - ctx
           len1 == IF first THEN Len(got) ELSE ctx + Len(got)
           seed1 == [seed EXCEPT !.pos = @ + Len(got)]
           buf2 == buf1
           len2 == len1
           b == submitSourceDataBegin(job, buf2, start_in)
       IN  /\ seed' = seed1
           /\ file' = [file EXCEPT !.in = in1, !.buf = buf2, !.len = len2]
           /\ job' = b.job
           /\ scan' = [x |-> b.x, got_blocks |-> 0]
    /\ pc' = "scan"
    /\ UNCHANGED <<info, heap, cancel, stream, target, result>>

\* ReadSeedFile refilling the buffer without the move of the last nContext
\* bytes to its start
ReadSeedFileNoCarry ==
    /\ pc = "read"
    /\ ~atEnd(seed)
    /\ LET bufsize == job.nBlockSize * BufferBlocks
           ctx == job.nContext
           start_in == file.in
           first == file.in = 0
           got == IF first THEN ReadBytes(seed.bytes, seed.pos, bufsize)
                  ELSE ReadBytes(seed.bytes, seed.pos, bufsize - ctx)
           buf1 == IF first THEN Store(file.buf, 0, got)
                   ELSE Store(file.buf, ctx, got)
           in1 == IF first THEN file.in + Len(got) ELSE file.in + bufsize - ctx
           len1 == IF first THEN Len(got) ELSE ctx + Len(got)
           seed1 == [seed EXCEPT !.pos = @ + Len(got)]
           buf2 == IF atEnd(seed1) THEN Store(buf1, len1, Zeros(ctx)) ELSE buf1
           len2 == IF atEnd(seed1) THEN len1 + ctx ELSE len1
           b == submitSourceDataBegin(job, buf2, start_in)
       IN  /\ seed' = seed1
           /\ file' = [file EXCEPT !.in = in1, !.buf = buf2, !.len = len2]
           /\ job' = b.job
           /\ scan' = [x |-> b.x, got_blocks |-> 0]
    /\ pc' = "scan"
    /\ UNCHANGED <<info, heap, cancel, stream, target, result>>

\* one turn of the read loop of submitSourceFile, up to the call of
\* submitSourceData and into it
ReadSeedFile ==
    /\ pc = "read"
    /\ ~atEnd(seed)
    /\ LET bufsize == job.nBlockSize * BufferBlocks
           ctx == job.nContext
           start_in == file.in
           first == file.in = 0
           got == IF first THEN ReadBytes(seed.bytes, seed.pos, bufsize)
                  ELSE ReadBytes(seed.bytes, seed.pos, bufsize - ctx)
           buf1 == IF first THEN Store(file.buf, 0, got)
                   ELSE Store(Store(file.buf, 0, Bytes(file.buf, bufsize - ctx, ctx)),
                              ctx, got)
           in1 == IF first THEN file.in + Len(got) ELSE file.in + bufsize - ctx
           len1 == IF first THEN Len(got) ELSE ctx + Len(got)
           seed1 == [seed EXCEPT !.pos = @ + Len(got)]
           buf2 == IF atEnd(seed1) THEN Store(buf1, len1, Zeros(ctx)) ELSE buf1
           len2 == IF atEnd(seed1) THEN len1 + ctx ELSE len1
           b == submitSourceDataBegin(job, buf2, start_in)
       IN  /\ seed' = seed1
           /\ file' = [file EXCEPT !.in = in1, !.buf = buf2, !.len = len2]
           /\ job' = b.job
           /\ scan' = [x |-> b.x, got_blocks |-> 0]
    /\ pc' = "scan"
    /\ UNCHANGED <<info, heap, cancel, stream, target, result>>

\* WindowHash without the shift by BITHASHBITS
WindowHashNoShift(j) ==
    Xor(j.currentWeakCheckSums.first.b,
        IF j.nSeqMatches > 1 THEN j.currentWeakCheckSums.second.b
        ELSE j.currentWeakCheckSums.first.a % (j.weakCheckSumMask + 1))

\* the composite hash of the window that submitSourceData looks up
WindowHash(j) ==
    Xor(j.currentWeakCheckSums.first.b,
        (IF j.nSeqMatches > 1 THEN j.currentWeakCheckSums.second.b
         ELSE j.currentWeakCheckSums.first.a % (j.weakCheckSumMask + 1)) * Pow2(BITHASHBITS))

\* the bit of a hash in the bit hash: byte (hash & _pBitHashMask) >> 3, bit
\* hash & 7
InBitHash(j, hash) == <<(hash % (j.bitHashMask + 1)) \div 8, hash % 8>> \in j.bitHash

\* what a walk of the hash chain of the window's hash gave
ChainResult(viaHash, seq) ==
    [m |-> viaHash.m, thismatch |-> viaHash.got_blocks,
     blocks_matched |-> IF viaHash.got_blocks # 0 THEN seq ELSE 0,
     path |-> "chain"]

\* the lookup of the window's hash in the bit hash and in the rsum hash,
\* made unless the try against _pNextMatch (viaNext) got blocks
LookUpWindow(viaNext, data) ==
    LET j1 == viaNext.m.job
        hash == WindowHash(j1)
        e == j1.rsumHash[hash % (j1.hashMask + 1)]
        inBitHash == InBitHash(j1, hash)
    IN  IF viaNext.got_blocks # 0
        THEN [m |-> viaNext.m, thismatch |-> viaNext.got_blocks, blocks_matched |-> 1,
              path |-> "next"]
        ELSE IF inBitHash /\ e # NULL
        THEN ChainResult(checkCheckSumsOnHashChain(viaNext.m, e, data, FALSE),
                         j1.nSeqMatches)
        ELSE [m |-> viaNext.m, thismatch |-> 0, blocks_matched |-> 0, path |-> "none"]

\* the matching of one turn of the loop of submitSourceData at window x:
\* first against _pNextMatch, then through the hash tables
MatchWindow(m, data) ==
    LookUpWindow(IF m.job.nextMatch # NULL /\ m.job.nSeqMatches > 1
                 THEN checkCheckSumsOnHashChain(m, m.job.nextMatch, data, TRUE)
                 ELSE [m |-> m, got_blocks |-> 0],
                 data)

\* the slide of the window at x by one byte: oc = data[x], nc = data[x + bs]
\* and Nc = data[x + bs * 2] are read whatever nSeqMatches is
slideWindow(j, data, x) ==
    LET bs == j.nBlockSize
        Nc == data[x + bs * 2 + 1]
        nc == data[x + bs + 1]
        oc == data[x + 1]
        cur == j.currentWeakCheckSums
    IN  [j EXCEPT !.currentWeakCheckSums =
            [first |-> UPDATE_RSUM(cur.first, oc, nc, j.nBlockShift),
             second |-> IF j.nSeqMatches > 1
                        THEN UPDATE_RSUM(cur.second, nc, Nc, j.nBlockShift)
                        ELSE cur.second]]

\* the indices of data that the slide of the window at x reads
slideReads(j, x) == {x + j.nBlockSize * 2, x + j.nBlockSize, x}

\* the indices of data that the walk of a chain for the window at x may
\* read: the blocks check_md4 < nSeqMatches for their MD4, and for the write
chainReads(j, x) == x..(x + j.nBlockSize * j.nSeqMatches - 1)

\* the skip over the blocks matched at window x: x1 is the new x; with the
\* next window past the end of the buffer the call returns and leaves
\* _nSkip, else the checksums are those of the windows at x1
skipMatched(j, blocks_matched, x, data, len) ==
    LET bs == j.nBlockSize
        x1 == x + bs + (IF blocks_matched > 1 THEN bs ELSE 0)
        cur == j.currentWeakCheckSums
    IN  IF x1 + j.nContext > len
        THEN [job |-> [j EXCEPT !.nSkip = x1 + j.nContext - len],
              x |-> x1, returned |-> TRUE]
        ELSE [job |-> [j EXCEPT !.currentWeakCheckSums =
                          [first |-> IF j.nSeqMatches > 1 /\ blocks_matched = 1
                                     THEN cur.second
                                     ELSE calc_rsum_block(Bytes(data, x1, bs)),
                           second |-> IF j.nSeqMatches > 1
                                      THEN calc_rsum_block(Bytes(data, x1 + bs, bs))
                                      ELSE cur.second]],
              x |-> x1, returned |-> FALSE]

\* the rest of the turn at window x after the matching gave r: skip the
\* matched blocks and recompute the checksums, or slide by one byte
AdvanceWindow(r, x, data, len) ==
    LET got == scan.got_blocks + r.thismatch
        k == skipMatched(r.m.job, r.blocks_matched, x, data, len)
    IN  /\ target' = r.m.target
        /\ IF r.blocks_matched # 0
           THEN /\ job' = k.job
                /\ scan' = [x |-> k.x, got_blocks |-> got]
                /\ IF k.returned
                   THEN /\ file' = [file EXCEPT !.got_blocks = @ + got]
                        /\ pc' = "read"
                   ELSE UNCHANGED <<file, pc>>
           ELSE /\ job' = slideWindow(r.m.job, data, x)
                /\ scan' = [x |-> x + 1, got_blocks |-> got]
                /\ UNCHANGED <<file, pc>>

\* one turn of the for loop of submitSourceData
SubmitSourceDataStep ==
    /\ pc = "scan"
    /\ IF scan.x + job.nContext = file.len
       THEN /\ file' = [file EXCEPT !.got_blocks = @ + scan.got_blocks]
            /\ pc' = "read"
            /\ UNCHANGED <<job, target, scan>>
       ELSE AdvanceWindow(MatchWindow([job |-> job, target |-> target],
                                      SubSeq(file.buf, scan.x + 1, Len(file.buf))),
                          scan.x, file.buf, file.len)
    /\ UNCHANGED <<info, heap, cancel, stream, seed, result>>

\* the end of submitSourceFile and its return into operator()
SubmitSourceFileEnd ==
    /\ pc = "read"
    /\ atEnd(seed)
    /\ result' = [result EXCEPT !.gotBlocks = @ + file.got_blocks]
    /\ seed' = [seed EXCEPT !.state = "closed"]
    /\ pc' = "ranges"
    /\ UNCHANGED <<info, heap, cancel, stream, job, target, file, scan>>

GetRequiredRanges ==
    /\ pc = "ranges"
    /\ result' = [result EXCEPT !.requiredRanges = getRequiredRanges(job)]
    /\ pc' = "done"
    /\ UNCHANGED <<info, heap, cancel, stream, seed, job, target, file, scan>>

\* the caller asks the run to stop, between two refills of the buffer
RequestCancel ==
    /\ pc = "read"
    /\ file.in # 0
    /\ ~atEnd(seed)
    /\ ~cancel
    /\ cancel' = TRUE
    /\ UNCHANGED <<info, heap, stream, seed, job, target, pc, file, scan, result>>

Next ==
    \/ RequestCancel
    \/ ParseTargetFileCheckSumBlocks
    \/ TryOpenSeedFile
    \/ SubmitSourceFileBegin
    \/ ReadSeedFile
    \/ SubmitSourceDataStep
    \/ SubmitSourceFileEnd
    \/ GetRequiredRanges

Spec == Init /\ [][Next]_vars

(***************************************************************************)
(* The known ranges on their own: from no range, addToRanges of any block  *)
(* id in any order.                                                        *)
(***************************************************************************)
RangeInit ==
    StartAt(Info(1, 0, MaxRangeBlocks, 4, 2, 1), Zeros(MaxRangeBlocks),
            StreamOf(Info(1, 0, MaxRangeBlocks, 4, 2, 1), Zeros(MaxRangeBlocks)),
            <<>>, "ok", AllAllocated, 0)

AddToRanges ==
    /\ \E x \in 0..(job.nBlocks - 1) : job' = addToRanges(job, x)
    /\ UNCHANGED <<info, heap, cancel, stream, seed, target, pc, file, scan, result>>

RangeNext == AddToRanges

RangeSpec == RangeInit /\ [][RangeNext]_vars

(***************************************************************************)
(* Vocabulary of the properties.                                           *)
(***************************************************************************)
\* the block ids that the known ranges cover
Known ==
    {b \in 0..(job.nBlocks - 1) :
        \E i \in 0..(job.nRanges - 1) :
            job.ranges[2 * i + 1] <= b /\ b <= job.ranges[2 * i + 1 + 1]}

\* operator() has returned without error
Finished == pc = "done" /\ result.errorCode = 0

\* the strong checksum of a block of data and the one stored for block id
StrongOf(data) == SubSeq(Md4(data), 1, job.nStrongCheckSumBytes)
StoredStrong(id) == SubSeq(job.blockHashes[id + 1].checksum, 1, job.nStrongCheckSumBytes)

\* the strong checksum of block id in the checksum stream
StreamStrong(id) ==
    SubSeq(stream.bytes,
           id * (info.weakCheckSumBytes + info.strongCheckSumBytes)
              + info.weakCheckSumBytes + 1,
           (id + 1) * (info.weakCheckSumBytes + info.strongCheckSumBytes))

\* the block of the target file that has id b
WantedBlock(b) == Bytes(target.wanted, b * info.blockSize, info.blockSize)

\* the seed as the scanner sees it, and its window of one block at x
PaddedSeed == seed.bytes \o Zeros(job.nContext)
SeedBlock(x) == Bytes(PaddedSeed, x, job.nBlockSize)

\* a block of data passes the weak and the strong check of entry id
Passes(id, data) ==
    /\ job.blockHashes # <<>>
    /\ job.blockHashes[id + 1].r.a = calc_rsum_block(data).a % (job.weakCheckSumMask + 1)
    /\ job.blockHashes[id + 1].r.b = calc_rsum_block(data).b
    /\ StrongOf(data) = StoredStrong(id)

\* the window at x of the seed passes the checks of block id alone
BlockMatchAt(x, id) == Passes(id, SeedBlock(x))

\* the window at x of the seed passes the checks of a full chain hit on id
ChainMatchAt(x, id) ==
    /\ Passes(id, SeedBlock(x))
    /\ job.nSeqMatches > 1 => Passes(id + 1, SeedBlock(x + job.nBlockSize))

\* the positions of the windows of a seed that fits the buffer
Windows == 0..(Len(seed.bytes) - 1)
BlockIds == 0..(job.nBlocks - 1)

(***************************************************************************)
(* C1: every block that writeBlocks writes is written with nBlockSize      *)
(* bytes whose MD4, cut to nStrongCheckSumBytes, is the checksum stored    *)
(* for that block, on the full chain path and on the onlyone path.         *)
(***************************************************************************)
WriteChecked(w) ==
    /\ Len(w.data) = (w.bto - w.bfrom + 1) * job.nBlockSize
    /\ \A b \in w.bfrom..w.bto :
          StrongOf(Bytes(w.data, (b - w.bfrom) * job.nBlockSize, job.nBlockSize))
              = StoredStrong(b)

C2_IdenticalSeedGetsAllBlocks ==
    (Finished /\ seed.bytes = target.wanted)
        => (result.gotBlocks = info.blocks /\ result.requiredRanges.null)

(***************************************************************************)
(* C3: after a run without error every block id of the job that is not in  *)
(* the known ranges lies in a returned range <<first, second>>, first      *)
(* included and second excluded.                                           *)
(***************************************************************************)
InRange(r, b) == r.range[1] <= b /\ b < r.range[2]

C3_MissingBlocksAreRequired ==
    Finished =>
        \A b \in BlockIds \ Known :
            \E k \in 1..Len(result.requiredRanges.ranges) :
                InRange(result.requiredRanges.ranges[k], b + info.blockIdOffset)

\* the known ranges split the window twice: nothing but the three holes is
\* returned
C3_Witness ==
    /\ Finished
    /\ job.nRanges = 2
    /\ Len(result.requiredRanges.ranges) = 3
    /\ \A k \in 1..3 :
          result.requiredRanges.ranges[k].range[2]
              = result.requiredRanges.ranges[k].range[1] + 1

(***************************************************************************)
(* C4: after a run without error no returned range, read as the inclusive  *)
(* interval first..second, holds a block id that is known or outside the   *)
(* job's window, and an empty seed gives the one range                     *)
(* <<offset, offset + blocks - 1>> with blocks checksums.                  *)
(***************************************************************************)
C4_RangesHoldOnlyMissingBlocks ==
    Finished =>
        /\ \A k \in 1..Len(result.requiredRanges.ranges) :
              \A b \in result.requiredRanges.ranges[k].range[1]
                          ..result.requiredRanges.ranges[k].range[2] :
                  /\ b - info.blockIdOffset \in BlockIds
                  /\ b - info.blockIdOffset \notin Known
        /\ seed.bytes = <<>> =>
              /\ Len(result.requiredRanges.ranges) = 1
              /\ result.requiredRanges.ranges[1].range
                    = <<info.blockIdOffset, info.blockIdOffset + info.blocks - 1>>
              /\ Len(result.requiredRanges.ranges[1].sums) = info.blocks

(***************************************************************************)
(* C5: the returned ranges are ascending and pairwise disjoint: each ends  *)
(* before the next one starts, none is a copy of the initial window.       *)
(***************************************************************************)
C5_RangesAscendingDisjoint ==
    Finished =>
        \A k, l \in 1..Len(result.requiredRanges.ranges) :
            k < l => result.requiredRanges.ranges[k].range[2]
                        <= result.requiredRanges.ranges[l].range[1]

C7_NoRangesIffAllKnown ==
    Finished =>
        /\ result.requiredRanges.null <=> Known = BlockIds
        /\ ~result.requiredRanges.null => result.requiredRanges.ranges # <<>>

\* all of several blocks were found in the seed
C7_Witness ==
    /\ Finished
    /\ info.blocks > 1
    /\ Known = BlockIds
    /\ result.requiredRanges.null

(***************************************************************************)
(* C8: with nSeqMatches = 2 nothing is written as long as no window of the *)
(* seed passes the weak and the strong check of a block with the following *)
(* nBlockSize bytes passing those of the next block; a window that matches *)
(* one block alone writes nothing.                                         *)
(***************************************************************************)
C8_IsolatedMatchWritesNothing ==
    (/\ info.seqMatches = 2
     /\ \A x \in Windows, id \in BlockIds : ~ChainMatchAt(x, id))
        => target.writes = <<>>

\* the scan is over, a window matched a block alone, none matched a pair
C8_Witness ==
    /\ Finished
    /\ info.seqMatches = 2
    /\ \E x \in Windows, id \in BlockIds : BlockMatchAt(x, id)
    /\ \A x \in Windows, id \in BlockIds : ~ChainMatchAt(x, id)
    /\ target.writes = <<>>

(***************************************************************************)
(* C9: with nSeqMatches = 2, blocks of 4 bytes, the target ABCDEFGH and    *)
(* the seed QQABCDQQEFGHQQ the run returns gotBlocks = 2.  Amended: it     *)
(* returns gotBlocks = 0 and writes nothing, the two blocks not being      *)
(* next to each other in the seed.                                         *)
(***************************************************************************)
SeparatedBlocksRun ==
    /\ pc = "done"
    /\ info.blockSize = 4 /\ info.blocks = 2 /\ info.seqMatches = 2
    /\ target.wanted = ABCDEFGH
    /\ seed.bytes = QQABCDQQEFGHQQ

C9_SeparatedBlocksGetBoth == SeparatedBlocksRun => result.gotBlocks = 2

C9_SeparatedBlocksGetNothing ==
    SeparatedBlocksRun =>
        /\ result.errorCode = 0
        /\ result.gotBlocks = 0
        /\ target.writes = <<>>

C9_Witness == SeparatedBlocksRun /\ ~result.requiredRanges.null

(***************************************************************************)
(* C10: a seed shorter than nContext gives no write and gotBlocks = 0.     *)
(* Amended: it does so exactly if no window of the seed followed by the    *)
(* zero padding passes the checks of a block (with nSeqMatches = 2, of a   *)
(* block and the next one); a seed that the padding completes to a block   *)
(* of the target is written.                                               *)
(***************************************************************************)
ShortSeedRun == Finished /\ Len(seed.bytes) < job.nContext

ShortStream ==
    Len(stream.bytes) < info.blocks * (info.weakCheckSumBytes + info.strongCheckSumBytes)

\* the error codes of the checksum stream and of the seed file
StreamErrors ==
    {INVALID_TARGET_FILE_CHECKSUM_BLOCKS, CANNOT_OPEN_TARGET_FILE_CHECKSUM_BLOCKS,
     QBUFFER_IO_READ_ERROR}
SeedErrors ==
    {SOURCE_FILE_NOT_FOUND, NO_PERMISSION_TO_READ_SOURCE_FILE, CANNOT_OPEN_SOURCE_FILE}

\* C11: a checksum stream that holds fewer than blocks * (weak + strong)
\* bytes, cut after a whole record or inside one, is never accepted: once it
\* has been parsed the run has an error code.
C11_TruncatedStreamIsRejected ==
    pc # "parse" /\ heap.blockHashes /\ ShortStream => result.errorCode # 0

\* C12: a run that returned an error code has got no blocks, reports no
\* required ranges, has not written to the target file nor moved it, and
\* knows no block; an error of the seed file is returned only if the block
\* hash table and the checksum stream gave none.
C12_ErrorsLeaveNothing ==
    pc = "done" /\ result.errorCode # 0
        => /\ result.gotBlocks = 0
           /\ result.requiredRanges.null
           /\ target.writes = <<>>
           /\ target.bytes = Zeros(Len(target.bytes))
           /\ job.nRanges = 0
           /\ job.ranges = <<>>
           /\ result.errorCode \in SeedErrors
                 => parseTargetFileCheckSumBlocks(job, stream, 0).errorCode = 0

\* a broken checksum stream together with a missing seed file
C12_Witness ==
    /\ pc = "done"
    /\ seed.state = "missing"
    /\ ShortStream
    /\ result.errorCode \in StreamErrors

\* C13: a run in which the allocation of the rsum hash or of the bit hash
\* failed returns an error code other than 0.
C13_AllocFailureIsAnError ==
    pc = "done" /\ seed.state = "closed" /\ heap.buf
                /\ (~heap.rsumHash \/ ~heap.bitHash)
        => result.errorCode # 0

\* C14: once the caller has asked the run to stop no refill of the buffer
\* is scanned, and the run returns an error code.
C14_NoScanAfterCancel ==
    cancel => pc # "scan" /\ (pc = "done" => result.errorCode # 0)

(***************************************************************************)
(* The target writer.                                                      *)
(***************************************************************************)
\* C15: every call of writeBlocks leaves the target file at the position it
\* found it at: the position each call found is the one the next call
\* finds, and the one the file has after the last call.
C15_WritesRestorePosition ==
    \A k \in 1..Len(target.writes) :
        target.writes[k].pos = IF k < Len(target.writes)
                               THEN target.writes[k + 1].pos
                               ELSE target.pos

\* two calls have written away from the position of the caller, which is
\* not the start of the file
C15_Witness ==
    /\ Len(target.writes) > 1
    /\ target.pos = 3
    /\ \A k \in 1..Len(target.writes) :
          target.writes[k].len > 0
              /\ target.writes[k].offset + target.writes[k].len # target.pos

RangeLo(i) == job.ranges[2 * i + 1]
RangeHi(i) == job.ranges[2 * i + 2]

\* C17: whatever blocks were added in whatever order, the known ranges are
\* ascending, none is empty, and between two neighbours at least one block
\* is missing.
C17_RangesSortedApart ==
    \A i \in 0..(job.nRanges - 1) :
        /\ RangeLo(i) <= RangeHi(i)
        /\ i + 1 < job.nRanges => RangeHi(i) + 1 < RangeLo(i + 1)

\* three ranges, the middle one of three blocks: it was merged or grown
C17_Witness ==
    /\ job.nRanges = 3
    /\ RangeLo(0) = 0 /\ RangeHi(0) = 0
    /\ RangeLo(1) = 2 /\ RangeHi(1) = 4
    /\ RangeLo(2) = 6

\* C18: for every block id x, also one before the first and after the last
\* block, rangeBeforeBlock gives -1 exactly if x is in a known range, and
\* else the number of known ranges below x; alreadyGotBlock says whether
\* x is in a known range.
C18_RangeBeforeCountsRangesBelow ==
    \A x \in (0 - 1)..job.nBlocks :
        LET covered == \E i \in 0..(job.nRanges - 1) : RangeLo(i) <= x /\ x <= RangeHi(i)
            below == {i \in 0..(job.nRanges - 1) : RangeHi(i) < x}
        IN  /\ alreadyGotBlock(job, x) = covered
            /\ rangeBeforeBlock(job, x) = IF covered THEN 0 - 1 ELSE Cardinality(below)

\* with three known ranges a block between the second and the third
C18_Witness ==
    /\ job.nRanges = 3
    /\ \E x \in 0..(job.nBlocks - 1) :
          /\ RangeHi(1) < x /\ x < RangeLo(2)
          /\ rangeBeforeBlock(job, x) = 2

(***************************************************************************)
(* The rsum hash and the known ranges.                                     *)
(***************************************************************************)
\* the entries on the chain from entry e on, n of them at most
RECURSIVE ChainFrom(_, _)
ChainFrom(e, n) ==
    IF e = NULL \/ n = 0 THEN <<>>
    ELSE <<e>> \o ChainFrom(job.blockHashes[e + 1].next, n - 1)

\* the places of entry id in the chains of the rsum hash
Links(id) ==
    {<<k, p>> \in (DOMAIN job.rsumHash) \X (1..(job.nBlocks + 1)) :
        /\ p <= Len(ChainFrom(job.rsumHash[k], job.nBlocks + 1))
        /\ ChainFrom(job.rsumHash[k], job.nBlocks + 1)[p] = id}

\* C19: once the rsum hash is built, a block of the job that is known is in
\* no chain of the rsum hash, and one that is not known is in one place of
\* one chain.
C19_KnownIffUnlinked ==
    job.rsumHash # <<>>
        => \A id \in BlockIds :
              Cardinality(Links(id)) = IF id \in Known THEN 0 ELSE 1

\* a run has ended with a known block and, behind a missing block of the
\* same chain, another missing one
C19_Witness ==
    /\ Finished
    /\ job.rsumHash # <<>>
    /\ Known # {}
    /\ \E id \in BlockIds \ Known :
          \E l \in Links(id) : l[2] > 1

\* C20: over a whole run no block id is written by two calls of
\* writeBlocks: a block that is known is not matched and written again.
C20_BlocksWrittenOnce ==
    \A k, l \in 1..Len(target.writes) :
        k < l => (target.writes[k].bfrom..target.writes[k].bto)
                    \cap (target.writes[l].bfrom..target.writes[l].bto) = {}

(***************************************************************************)
(* The count of the blocks got.                                            *)
(***************************************************************************)
\* C21: after a run without error gotBlocks is the number of block ids in
\* the known ranges, each block of the target counted once, hence not more
\* than the number of blocks of the job.
C21_GotBlocksCountsKnown ==
    Finished => /\ result.gotBlocks = Cardinality(Known)
                /\ result.gotBlocks <= info.blocks

(***************************************************************************)
(* The hint _pNextMatch and the cached _nNextKnown.                        *)
(***************************************************************************)
\* the next turn of the loop of submitSourceData walks _pNextMatch alone
OnlyOneDue ==
    /\ pc = "scan"
    /\ scan.x + job.nContext # file.len
    /\ job.nSeqMatches > 1
    /\ job.nextMatch # NULL

\* C22: whenever the chain is walked for the one entry _pNextMatch, of block
\* n, _nNextKnown has been set by a match of a full walk, n is not in the
\* known ranges and _nNextKnown is nextKnownBlock(n) of the known ranges as
\* they are, also after a full walk in which a later entry wrote blocks.
C22_NextMatchCacheIsCurrent ==
    OnlyOneDue =>
        /\ job.nNextKnown # Uninitialised
        /\ job.nextMatch \notin Known
        /\ job.nNextKnown = nextKnownBlock(job, job.nextMatch)

(***************************************************************************)
(* The rolling checksums on their own: the sums of the windows at 0 of a   *)
(* buffer, then slides of the window by one byte.                          *)
(***************************************************************************)
\* the block sizes: the powers of two and the small sizes
SlideBlockSizes == {Pow2(k) : k \in 0..MaxSlideShift} \cup (1..MaxOddBlockSize)

SlideInfos == {Info(bs, 0, 1, 4, 2, seq) : bs \in SlideBlockSizes, seq \in {1, 2}}

\* buffers of n bytes: two values taking turns every d bytes, and ramps
SlideBuffers(n) ==
    {[k \in 1..n |-> IF ((k - 1) \div d) % 2 = 0 THEN u ELSE v] :
        u \in {0, 1, UCHAR_MAX}, v \in {0, UCHAR_MAX - 1, UCHAR_MAX}, d \in 1..MaxSlides}
      \cup {[k \in 1..n |-> (k * m) % (UCHAR_MAX + 1)] : m \in {1, UCHAR_MAX}}

\* the job at the start of the loop of submitSourceData on a new stream,
\* the buffer holding the two windows and the bytes to slide over
SlideInit ==
    \E i \in SlideInfos :
        \E data \in SlideBuffers(2 * i.blockSize + MaxSlides) :
            /\ info = i
            /\ heap = AllAllocated
            /\ cancel = FALSE
            /\ stream = [null |-> TRUE, canOpen |-> FALSE, bytes |-> <<>>]
            /\ seed = [state |-> "ok", bytes |-> data, pos |-> Len(data)]
            /\ job = submitSourceDataBegin(ZsyncCoreJobPrivate(i), data, 0).job
            /\ target = [pos |-> 0, bytes |-> <<>>, writes |-> <<>>, wanted |-> <<>>]
            /\ pc = "slide"
            /\ file = [got_blocks |-> 0, in |-> 0, buf |-> data, len |-> Len(data)]
            /\ scan = [x |-> 0, got_blocks |-> 0]
            /\ result = ResultInit

\* the slide of the window by one byte, as long as the buffer holds the
\* three bytes it reads
SlideWindow ==
    /\ pc = "slide"
    /\ scan.x + job.nBlockSize * 2 < Len(file.buf)
    /\ job' = slideWindow(job, file.buf, scan.x)
    /\ scan' = [scan EXCEPT !.x = @ + 1]
    /\ UNCHANGED <<info, heap, cancel, stream, seed, target, pc, file, result>>

SlideNext == SlideWindow

SlideSpec == SlideInit /\ [][SlideNext]_vars

\* the rolling sums of the job are the sums of the windows at scan.x
SumsAreBlockSums ==
    /\ job.currentWeakCheckSums.first
          = calc_rsum_block(Bytes(file.buf, scan.x, job.nBlockSize))
    /\ job.nSeqMatches > 1 =>
          job.currentWeakCheckSums.second
              = calc_rsum_block(Bytes(file.buf, scan.x + job.nBlockSize, job.nBlockSize))

Covered(j) ==
    {b \in 0..(j.nBlocks - 1) :
        \E i \in 0..(j.nRanges - 1) :
            j.ranges[2 * i + 1] <= b /\ b <= j.ranges[2 * i + 1 + 1]}

\* C23: for every set of known ranges that addToRanges builds and every
\* block id x, addToRanges(x) makes the covered ids the ones covered before
\* and x, whether it merges two ranges, grows one or inserts one, and
\* changes nothing if x is covered already.
C23_AddCoversOneMoreBlock ==
    \A x \in 0..(job.nBlocks - 1) :
        /\ Covered(addToRanges(job, x)) = Covered(job) \cup {x}
        /\ x \in Covered(job) => addToRanges(job, x) = job

\* three ranges, the first two a block apart: adding that block merges
\* them, others grow a range at its start or at its end or make a new one
C23_Witness ==
    /\ job.nRanges = 3
    /\ RangeHi(0) + 2 = RangeLo(1)
    /\ addToRanges(job, RangeHi(0) + 1).nRanges = 2
    /\ \E x \in 0..(job.nBlocks - 1) : addToRanges(job, x).nRanges = 4
    /\ \E x \in 0..(job.nBlocks - 1) :
          addToRanges(job, x).nRanges = 3 /\ addToRanges(job, x).ranges[3] = x
    /\ \E x \in 0..(job.nBlocks - 1) :
          addToRanges(job, x).nRanges = 3 /\ addToRanges(job, x).ranges[4] = x

\* C24: for every block id x of the job nextKnownBlock(x) is x if x is
\* covered, and else the smallest covered id above x, or the number of
\* blocks if there is none: for an x that is not covered it is above x and
\* at most the number of blocks.
C24_NextKnownIsSmallestCoveredAbove ==
    \A x \in 0..(job.nBlocks - 1) :
        LET above == {b \in Covered(job) : b > x}
        IN  /\ x \in Covered(job) => nextKnownBlock(job, x) = x
            /\ x \notin Covered(job) =>
                  /\ nextKnownBlock(job, x)
                        = IF above = {} THEN job.nBlocks
                          ELSE CHOOSE b \in above : \A c \in above : b <= c
                  /\ nextKnownBlock(job, x) > x
                  /\ nextKnownBlock(job, x) <= job.nBlocks

\* two ranges, the second of several blocks: a block before it and one
\* after it are not covered
C24_Witness ==
    /\ job.nRanges = 2
    /\ RangeLo(1) < RangeHi(1)
    /\ \E x \in 0..(job.nBlocks - 1) :
          /\ RangeHi(0) < x /\ x < RangeLo(1)
          /\ nextKnownBlock(job, x) = RangeLo(1)
    /\ \E x \in 0..(job.nBlocks - 1) :
          /\ RangeHi(1) < x
          /\ nextKnownBlock(job, x) = job.nBlocks

(***************************************************************************)
(* The bit hash as a filter in front of the rsum hash.                     *)
(***************************************************************************)
\* the bucket of the rsum hash for a hash, and the entries on its chain
Bucket(hash) == hash % (job.hashMask + 1)
ChainOf(k) ==
    {ChainFrom(job.rsumHash[k], job.nBlocks + 1)[p] :
        p \in 1..Len(ChainFrom(job.rsumHash[k], job.nBlocks + 1))}

\* the next turn of the loop of submitSourceData looks at a window
WindowDue == pc = "scan" /\ scan.x + job.nContext # file.len

\* C26: once the rsum hash is built, whatever blocks were removed since,
\* every entry on a chain is on the chain of the bucket of its calcRHash
\* and its bit of the bit hash is set, and so is every block that is not
\* known; a window whose hash is the calcRHash of a block that is not known
\* passes the bit hash, and its bucket's chain, not empty, holds that block.
C26_BitHashHasNoFalseNegatives ==
    job.rsumHash # <<>> =>
        /\ \A k \in DOMAIN job.rsumHash :
              \A e \in ChainOf(k) :
                  Bucket(calcRHash(job, e)) = k /\ InBitHash(job, calcRHash(job, e))
        /\ \A e \in BlockIds \ Known :
              /\ e \in ChainOf(Bucket(calcRHash(job, e)))
              /\ InBitHash(job, calcRHash(job, e))
              /\ (WindowDue /\ WindowHash(job) = calcRHash(job, e)) =>
                    /\ InBitHash(job, WindowHash(job))
                    /\ job.rsumHash[Bucket(WindowHash(job))] # NULL
                    /\ e \in ChainOf(Bucket(WindowHash(job)))

\* blocks have been removed, and the window has the hash of a block that is
\* not known, a hash of more bits than the index of a bucket has
C26_Witness ==
    /\ WindowDue
    /\ Known # {}
    /\ \E e \in BlockIds \ Known :
          /\ WindowHash(job) = calcRHash(job, e)
          /\ calcRHash(job, e) > job.hashMask

(***************************************************************************)
(* The walk of a whole chain while writeBlocks unlinks entries of it.      *)
(***************************************************************************)
\* what the matching of the window that is due gives, and the chain of the
\* window's bucket before it
WindowData == SubSeq(file.buf, scan.x + 1, Len(file.buf))
DueMatch == MatchWindow([job |-> job, target |-> target], WindowData)
DueChain == ChainFrom(job.rsumHash[Bucket(WindowHash(job))], job.nBlocks + 1)

\* the place of entry e in a sequence of entries, 0 if it is not in it
PlaceIn(seq, e) == IF \E p \in 1..Len(seq) : seq[p] = e
                   THEN CHOOSE p \in 1..Len(seq) : seq[p] = e
                   ELSE 0

\* entry e passes the checks of a full walk for the window in data
MatchesWindow(data, e) ==
    /\ Passes(e, Bytes(data, 0, job.nBlockSize))
    /\ job.nSeqMatches > 1 => Passes(e + 1, Bytes(data, job.nBlockSize, job.nBlockSize))

\* a walk r of the whole chain visited the entries of the chain in their
\* order, none twice, none that an earlier entry of the walk had written;
\* every entry of the chain was visited or is known after the walk, and
\* every entry of the chain that matches the window is known after it
WalkIsSafe(r, chain, data) ==
    r.path = "chain" =>
        /\ \A p \in 1..Len(r.m.job.visited) :
              /\ PlaceIn(chain, r.m.job.visited[p]) > 0
              /\ r.m.job.visited[p] \notin Known
              /\ \A q \in 1..(p - 1) :
                    /\ PlaceIn(chain, r.m.job.visited[q])
                          < PlaceIn(chain, r.m.job.visited[p])
                    /\ \A k \in (Len(target.writes) + 1)..Len(r.m.target.writes) :
                          (/\ ~r.m.target.writes[k].onlyone
                           /\ r.m.target.writes[k].bfrom = r.m.job.visited[q])
                              => r.m.job.visited[p]
                                    \notin r.m.target.writes[k].bfrom
                                             ..r.m.target.writes[k].bto
        /\ \A p \in 1..Len(chain) :
              \/ PlaceIn(r.m.job.visited, chain[p]) > 0
              \/ chain[p] \in Covered(r.m.job)
        /\ \A p \in 1..Len(chain) :
              MatchesWindow(data, chain[p]) => chain[p] \in Covered(r.m.job)

\* C27: a walk of a whole chain in which writeBlocks unlinks entries (the
\* one visited, the one _pRover is on, several in a row) visits no entry
\* that was unlinked before, visits every entry of the chain that was not
\* unlinked during the walk, and so writes every block of the chain that
\* matches the window.
C27_ChainWalkSurvivesUnlinking ==
    WindowDue => WalkIsSafe(DueMatch, DueChain, WindowData)

\* the walk r passed over an entry of the chain that an earlier entry had
\* written and went on to visit and write a later one
WalkSkippedUnlinked(r, chain) ==
    /\ r.path = "chain"
    /\ \E p, q, s \in 1..Len(chain) :
          /\ p < q /\ q < s
          /\ PlaceIn(r.m.job.visited, chain[p]) > 0
          /\ PlaceIn(r.m.job.visited, chain[q]) = 0
          /\ PlaceIn(r.m.job.visited, chain[s]) > 0
          /\ chain[s] \in Covered(r.m.job)

C27_Witness == WindowDue /\ WalkSkippedUnlinked(DueMatch, DueChain)

(***************************************************************************)
(* The scan through the buffer and the scan of the whole seed at once.     *)
(***************************************************************************)
\* the loop of submitSourceData run to its return on the buffer data of len
\* bytes, from window x with got blocks so far
RECURSIVE ScanLoop(_, _, _, _, _)
RECURSIVE ScanTurn(_, _, _, _, _)
RECURSIVE ScanSkip(_, _, _, _, _)
ScanLoop(m, x, got, data, len) ==
    IF x + m.job.nContext = len
    THEN [m |-> m, got_blocks |-> got]
    ELSE ScanTurn(MatchWindow(m, SubSeq(data, x + 1, Len(data))), x, got, data, len)

ScanTurn(r, x, got, data, len) ==
    IF r.blocks_matched # 0
    THEN ScanSkip(skipMatched(r.m.job, r.blocks_matched, x, data, len),
                  r, got + r.thismatch, data, len)
    ELSE ScanLoop([r.m EXCEPT !.job = slideWindow(r.m.job, data, x)],
                  x + 1, got + r.thismatch, data, len)

ScanSkip(k, r, got, data, len) ==
    IF k.returned
    THEN [m |-> [r.m EXCEPT !.job = k.job], got_blocks |-> got]
    ELSE ScanLoop([r.m EXCEPT !.job = k.job], k.x, got, data, len)

\* the job when submitSourceFile has built the hash tables from the block
\* hashes as they were parsed, and the target file before the first write
BuiltJob ==
    buildHash([ZsyncCoreJobPrivate(info) EXCEPT
                  !.blockHashes = [k \in DOMAIN job.blockHashes |->
                                      [job.blockHashes[k] EXCEPT !.next = NULL]]]).job
BlankTarget ==
    [target EXCEPT !.bytes = Zeros((info.blocks + info.blockIdOffset) * info.blockSize),
                   !.writes = <<>>]

\* one call of submitSourceData for the whole seed with its zero padding
ScanAtOnce(data) ==
    ScanLoop([job |-> submitSourceDataBegin(BuiltJob, data, 0).job, target |-> BlankTarget],
             0, 0, data, Len(data))

\* the seed position of the first byte of the buffer: the first buffer
\* starts the seed, a refill starts nContext bytes before what it read
BufferBase ==
    IF file.in <= job.nBlockSize * BufferBlocks THEN 0
    ELSE file.in - job.nBlockSize * BufferBlocks

\* the run has scanned a seed file to its end
Scanned == Finished /\ heap.buf /\ heap.rsumHash /\ heap.bitHash

\* a run r of the loop on the whole seed gave the calls of writeBlocks, the
\* count of blocks, the file and the known ranges of the run through the
\* buffer
SameAsAtOnce(r) ==
    /\ target.writes = r.m.target.writes
    /\ result.gotBlocks = r.got_blocks
    /\ target.bytes = r.m.target.bytes
    /\ job.ranges = r.m.job.ranges

ChainsEnd ==
    \A k \in DOMAIN job.rsumHash :
        Len(ChainFrom(job.rsumHash[k], job.nBlocks + 1)) <= job.nBlocks

\* a bound of the number of steps that operator() has left: the turns of
\* the loop of the running call of submitSourceData, a buffer of turns for
\* each byte of the seed that is not read, and the steps around the scan
StepsLeft ==
    (IF pc = "scan" THEN file.len - job.nContext - scan.x + 1 ELSE 0)
      + (IF pc \in {"parse", "open", "submit", "read", "scan"}
         THEN (Len(seed.bytes) - seed.pos) * (job.nBlockSize * BufferBlocks + 2)
         ELSE 0)
      + (CASE pc = "parse" -> 5
           [] pc = "open" -> 4
           [] pc = "submit" -> 3
           [] pc \in {"read", "scan"} -> 2
           [] pc = "ranges" -> 1
           [] OTHER -> 0)

\* C29: every call of submitSourceData returns and the scan ends: in the
\* loop x + nContext <= len, from the entry on, also with x = nSkip; each
\* turn of the loop that does not return makes x larger; each walk of a
\* chain ends; each step of the run makes the bound of the steps left
\* smaller, which is never below 0.
C29_ScanTerminates ==
    /\ [](/\ StepsLeft >= 0
          /\ pc = "scan" => /\ scan.x >= 0
                            /\ scan.x + job.nContext <= file.len
                            /\ ChainsEnd)
    /\ [][/\ (pc = "scan" /\ pc' = "scan") => scan'.x > scan.x
          /\ cancel' = cancel => StepsLeft' < StepsLeft]_vars

\* a call of submitSourceData has returned after a match at the end of the
\* buffer, leaving nSkip for the call on the refilled buffer
C29_Witness ==
    /\ pc = "read"
    /\ ~atEnd(seed)
    /\ file.in > 0
    /\ job.nSkip > 0
    /\ scan.x + job.nContext > file.len

(***************************************************************************)
(* The reads of the working buffer.                                        *)
(***************************************************************************)
\* the indices of the buffer that the turn of the loop at window x reads,
\* the matching having given r: the walks of the chains, then the sums of
\* the windows after the blocks matched, or the slide
TurnReads(r, k) ==
    chainReads(job, scan.x)
      \cup (IF r.blocks_matched = 0 THEN slideReads(job, scan.x)
            ELSE IF k.returned THEN {}
            ELSE chainReads(job, k.x))

\* every index in reads is one of the buffer as it was allocated
InBuffer(reads) == \A i \in reads : 0 <= i /\ i < Len(file.buf)

BufferReadsInside(r) ==
    InBuffer(TurnReads(r, skipMatched(r.m.job, r.blocks_matched, scan.x, file.buf, file.len)))

\* C30: every read of the buffer by submitSourceData and by
\* checkCheckSumsOnHashChain is at an index below the 16 * nBlockSize +
\* nContext bytes allocated, for nSeqMatches 1 and 2 and every length of the
\* seed, the read of data[x + bs * 2] of the slide included.
C30_BufferReadsInside == WindowDue => BufferReadsInside(DueMatch)

====
